---- MODULE Spec2Model ----
(***************************************************************************)
(* xscache: a registry of named cache tables (Cache), the cache table      *)
(* (CacheTable: Add, NotFoundAdd, Value, Delete, Flush and the             *)
(* self-rescheduling expirationCheck sweep) and the cache item             *)
(* (CacheItem.KeepAlive).                                                  *)
(*                                                                         *)
(* Granularity: one action is one stretch of code a goroutine runs without *)
(* being able to block and without giving up a lock it holds: a critical   *)
(* section of a mutex, a callback invocation, a read of the clock.         *)
(* Time is a discrete clock `now`; durations are multiples of its unit.    *)
(***************************************************************************)
EXTENDS Integers, Sequences, FiniteSets

\* ---------------------------------------------------------------- bounds
MaxLifeSpan == 2       \* lifeSpan arguments range over 0..MaxLifeSpan
MaxTime == 2           \* calls begin at the moments 0..MaxTime
MaxBusyTime == 1       \* from MaxBusyTime on the clock advances between operations only
MaxOps == 3            \* calls of the table's methods, all clients together
MaxCalls == 4          \* Cache(name) calls started, all clients together
MaxEntries == 3        \* MostAccessed: the table holds up to MaxEntries entries
MaxCount == 2          \* MostAccessed: their accessCount ranges over 0..MaxCount

\* the lifeSpan the data loader of the demo program gives its items
\* (5*time.Second there; here in clock units)
LoaderLifeSpan == 2

Nil == 0
None == "none"
Clients == {"c1", "c2"}       \* goroutines calling into the registry / the table
Sweepers == {"s1"}            \* goroutines spawned by a fired cleanup timer
Threads == Clients \cup Sweepers
Keys == {1, 2}
Names == {1, 2}
LifeSpans == 0..MaxLifeSpan
Times == 1..(2 * MaxTime + MaxLifeSpan + LoaderLifeSpan)

VARIABLES
    \* ---- registry (package variables `cache`, `mutex`)
    cache,       \* cache[name]: the table stored under name, Nil if none
    tables,      \* number of CacheTable objects constructed so far
    reg,         \* reg[c]: the position of client c inside Cache(name)
    calls,       \* Cache calls started
    got,         \* history: got[name] = the tables Cache(name) has returned
    \* ---- one CacheTable and the goroutines working on it
    table,       \* the CacheTable's fields, and lock: the holder of table.Lock()
                 \* and, as history, flushed: "no" while Flush was never
                 \* called, "yes" since the last Flush while nothing has been
                 \* stored after it, "added" otherwise
    heap,        \* the CacheItem objects constructed so far, by address 1..Len
    orphans,     \* armed timers that table.cleanupTimer no longer refers to,
                 \* orphans[at] = how many of them fire at time `at`
    now,         \* the clock
    th,          \* th[t]: the local variables and position of goroutine t
    ops,         \* table operations started
    sets,        \* of them, calls of the table's setters
    ret,         \* what the step just taken returned to its caller, or NoRet
    hist,        \* history, per item of heap
    loads        \* history: loads[k] = invocations of the data loader for key k

regVars == <<cache, tables, reg, calls, got>>
tabVars == <<table, heap, orphans, now, th, ops, sets, ret, hist, loads>>
vars == <<cache, tables, reg, calls, got,
          table, heap, orphans, now, th, ops, sets, ret, hist, loads>>

\* ================================================================ registry
\* Cache(table), lines 14-16: the lookup under mutex.RLock()
CacheFound(name) == cache[name] # Nil

RegIdle == [pc |-> "idle", name |-> Nil, t |-> Nil]

\* lines 14-16
CacheLookup(c, name) ==
    /\ reg[c].pc = "idle"
    /\ calls < MaxCalls
    /\ calls' = calls + 1
    /\ reg' = [reg EXCEPT ![c] =
                 [pc |-> IF CacheFound(name) THEN "found" ELSE "create",
                  name |-> name, t |-> cache[name]]]
    /\ UNCHANGED <<cache, tables, got>>
    /\ UNCHANGED tabVars

\* lines 19-30 with ok: return t
CacheReturn(c) ==
    /\ reg[c].pc = "found"
    /\ got' = [got EXCEPT ![reg[c].name] = @ \cup {reg[c].t}]
    /\ reg' = [reg EXCEPT ![c] = RegIdle]
    /\ UNCHANGED <<cache, tables, calls>>
    /\ UNCHANGED tabVars

\* lines 19-30 with !ok: construct a table under mutex.Lock(), store it, return it
CacheCreate(c) ==
    /\ reg[c].pc = "create"
    /\ tables' = tables + 1
    /\ cache' = [cache EXCEPT ![reg[c].name] = tables + 1]
    /\ got' = [got EXCEPT ![reg[c].name] = @ \cup {tables + 1}]
    /\ reg' = [reg EXCEPT ![c] = RegIdle]
    /\ UNCHANGED calls
    /\ UNCHANGED tabVars

RegInit ==
    /\ cache = [n \in Names |-> Nil]
    /\ tables = 0
    /\ reg = [c \in Clients |-> RegIdle]
    /\ calls = 0
    /\ got = [n \in Names |-> {}]

RegNext ==
    \E c \in Clients :
        \/ \E name \in Names : CacheLookup(c, name)
        \/ CacheReturn(c)
        \/ CacheCreate(c)

\* ================================================================ cache item
\* NewCacheItem(key, data, lifeSpan) called at time t. createdOn is left out:
\* it is set here to t and only ever written to the log.
NewCacheItem(key, data, lifeSpan, t) ==
    [key |-> key, data |-> data, lifeSpan |-> lifeSpan,
     accessedOn |-> t, accessCount |-> 0, aboutToExpire |-> FALSE]

\* a KeepAlive that loses the count (mutation of part_002, line 48)
KeepAliveNoCount(item, t) == [item EXCEPT !.accessedOn = t]
\* the body of CacheItem.KeepAlive, run at time t under item.Lock()
KeepAlive(item, t) ==
    [item EXCEPT !.accessedOn = t, !.accessCount = @ + 1]

\* what the data loader of the demo program computes for a key
LoadedData(key) == 100 + key

\* ================================================================ cache table
\* the local variables of a goroutine
\*   pc       where it stands ("idle": in no table operation)
\*   op       the exported operation it runs ("Sweep": a timer's goroutine)
\*   key      the key argument
\*   item     the item it constructed (add path) or found (Value)
\*   dkey, r  deleteInternal's key and r
\*   seen     the item of the loop of expirationCheck that was found expired
\*   cb       the callback it read under the lock is non-nil
\*   from     the callback whose body runs: "added", "del", "expire"
\*   vr       the item that a Value called by a callback body has found
\*   expDur   addInternal's expDur
\*   snow, smallest              expirationCheck's now and smallestDuration
\*   iter, todo, opt, snap       the state of expirationCheck's range loop
Idle == [pc |-> "idle", op |-> None, key |-> Nil, item |-> Nil, cb |-> FALSE,
         dkey |-> Nil, r |-> Nil, seen |-> Nil, from |-> None, vr |-> Nil,
         expDur |-> 0, snow |-> 0, smallest |-> 0,
         iter |-> None, todo |-> {}, opt |-> {}, snap |-> [k \in Keys |-> Nil],
         count |-> 0, p |-> <<>>]

NoRet == [op |-> None, by |-> None, key |-> Nil, item |-> Nil, data |-> Nil,
          err |-> None, ok |-> FALSE]
Returns(op, t, key, item, data, err, ok) ==
    [op |-> op, by |-> t, key |-> key, item |-> item, data |-> data,
     err |-> err, ok |-> ok]

\* history of an item: how often the added-item callback, the about-to-delete
\* callback and its own about-to-expire callback were invoked with it
\* and nGone: how often a deleteInternal has returned it as removed
NoHist == [nAdded |-> 0, nDel |-> 0, nExp |-> 0, nGone |-> 0]

NoTimer == [armed |-> FALSE, at |-> 0]

ItemIds == 1..Len(heap)
Present(k) == table.items[k] # Nil

\* ---- the entry locks (CacheItem's RWMutex)
\* goroutine u holds item i's RLock across steps: deleteInternal, lines
\* 173-183, the about-to-expire callback (line 176) included
HoldsRLock(u, i) ==
    /\ th[u].r = i
    /\ \/ th[u].pc = "del_lock"
       \/ th[u].pc \in {"cbv", "cbv_ka", "cbv_wait"} /\ th[u].from = "expire"
ReaderCount(i) == Cardinality({u \in Threads : HoldsRLock(u, i)})
\* goroutine u is inside item.Lock() of item i, waiting for the readers to
\* leave: in KeepAlive, called by Value or by a Value that a callback body
\* called, or in SetAboutToExpireCallback
WaitsForLock(u, i) ==
    \/ th[u].pc \in {"ka_wait", "cb_wait"} /\ th[u].item = i
    \/ th[u].pc = "cbv_wait" /\ th[u].vr = i
\* Go's RWMutex makes new readers wait while a writer waits
WriterPending(i) == \E u \in Threads : WaitsForLock(u, i)
CanRLock(i) == ~WriterPending(i)
CanLock(i) == ReaderCount(i) = 0

\* ---- the range loop of expirationCheck over the map object table.items.
\* A loop in progress produces every key of `todo` unless it is deleted first,
\* may or may not produce a key created meanwhile (`opt`), and goes on over
\* the old map object (`snap`) once Flush has given the table a new one.
IterOnCreate(T, k) ==
    [u \in Threads |->
        IF T[u].iter = "live" THEN [T[u] EXCEPT !.opt = @ \cup {k}] ELSE T[u]]
IterOnDelete(T, k) ==
    [u \in Threads |->
        IF T[u].iter = "live"
        THEN [T[u] EXCEPT !.todo = @ \ {k}, !.opt = @ \ {k}] ELSE T[u]]
IterOnFlush(T) ==
    [u \in Threads |->
        IF T[u].iter = "live"
        THEN [T[u] EXCEPT !.iter = "old",
                 !.snap = [k \in Keys |->
                     IF k \in T[u].todo \cup T[u].opt THEN table.items[k] ELSE Nil]]
        ELSE T[u]]

\* ---- expirationCheck's arithmetic
\* line 115
Expired(snow, accessedOn, lifeSpan) == snow - accessedOn >= lifeSpan
\* a minimum that takes every candidate (mutation of line 121)
NextSmallestLast(smallest, snow, accessedOn, lifeSpan) ==
    lifeSpan - (snow - accessedOn)
\* lines 121-123
NextSmallest(smallest, snow, accessedOn, lifeSpan) ==
    IF smallest = 0 \/ lifeSpan - (snow - accessedOn) < smallest
    THEN lifeSpan - (snow - accessedOn) ELSE smallest
\* line 154
NeedsCheck(lifeSpan, expDur) == lifeSpan > 0 /\ (expDur = 0 \/ lifeSpan < expDur)
\* a NotFoundAdd that never finds the key (mutation of line 207)
NotFoundAddBlind(key) == FALSE
\* line 207
NotFoundAddHit(key) == Present(key)
\* a Value that never finds the key (mutation of line 222)
ValueBlind(key) == FALSE
\* Value, line 222: r, ok := table.items[key]
ValueHit(key) == Present(key)
\* a loader whose nil is taken for an item (mutation of line 234)
LoaderNeverNil(f) == TRUE
\* Value, lines 233-234: the loader of kind f returns an item, not nil
LoaderReturnsItem(f) == f = "item"
\* Flush, line 253-256: what Flush leaves of cleanupInterval
FlushInterval == table.cleanupInterval

\* timer.Stop() on table.cleanupTimer, lines 95-97 and 254-256
Stopped(timer) == NoTimer

\* what an add path returns when it is through: Add the item, NotFoundAdd
\* true, Value (which called Add, line 236) the loader's item
AddReturns(t, op, key, i, data) ==
    IF op = "Value"
    THEN Returns("Value", t, key, Nil, LoadedData(key), None, TRUE)
    ELSE Returns(op, t, key, i, data, None, TRUE)

\* ---- addInternal, entered with the table lock held. Lines 141-146: store
\* the item, read expDur and addedItem, unlock. Lines 149-156 follow in the
\* same step when no callback is set: they touch nothing shared.
StoreItem(t, op, key, i, new, T, H) ==
    LET l == [Idle EXCEPT !.op = op, !.key = key, !.item = i,
                          !.expDur = table.cleanupInterval]
    IN
    /\ table' = [table EXCEPT !.items[key] = i, !.lock = None,
                    !.flushed = IF @ = "no" THEN "no" ELSE "added"]
    /\ hist' = H
    /\ LET U == IF Present(key) THEN T ELSE IterOnCreate(T, key) IN
       IF table.addedItem
       THEN /\ th' = [U EXCEPT ![t] = [l EXCEPT !.pc = "add_unlocked"]]
            /\ ret' = NoRet
       ELSE IF NeedsCheck(new.lifeSpan, table.cleanupInterval)
       THEN /\ th' = [U EXCEPT ![t] = [l EXCEPT !.pc = "exp_lock"]]
            /\ ret' = NoRet
       ELSE /\ th' = [U EXCEPT ![t] = Idle]
            /\ ret' = AddReturns(t, op, key, i, new.data)

\* a client starts an operation when it is in none; goroutines have no
\* identity in the program, so of the idle clients the first one starts
MayStart(t) ==
    /\ th[t].pc = "idle"
    /\ ops < MaxOps
    /\ now <= MaxTime
    /\ \A u \in Clients : th[u].pc = "idle" => ~(u = "c1" /\ t = "c2")

\* keys have no identity but equality: while no item was ever constructed,
\* no goroutine is in an operation and the loader never ran, an operation
\* names the first key
MayName(key) ==
    \/ key = 1
    \/ Len(heap) > 0
    \/ \E t \in Threads : th[t].pc # "idle"
    \/ \E k \in Keys : loads[k] > 0

\* Add, line 83: NewCacheItem, which reads the clock; the goroutine then
\* stands before table.Lock() (line 86)
Add(t, key, data, lifeSpan) ==
    /\ MayStart(t)
    /\ MayName(key)
    /\ ops' = ops + 1
    /\ heap' = Append(heap, NewCacheItem(key, data, lifeSpan, now))
    /\ hist' = Append(hist, NoHist)
    /\ th' = [th EXCEPT ![t] = [Idle EXCEPT !.pc = "add_lock", !.op = "Add",
                                  !.key = key, !.item = Len(heap) + 1]]
    /\ ret' = NoRet
    /\ UNCHANGED <<table, orphans, now, sets, loads>>
    /\ UNCHANGED regVars

\* Add, lines 86-87, called by a client or by Value (line 236): Lock and
\* addInternal's locked part, the item being constructed
AddLocked(t) ==
    /\ th[t].pc = "add_lock"
    /\ table.lock = None
    /\ StoreItem(t, th[t].op, th[t].key, th[t].item, heap[th[t].item], th, hist)
    /\ UNCHANGED <<heap, orphans, now, ops, sets, loads>>
    /\ UNCHANGED regVars

\* addInternal, lines 149-156, after the Unlock: the added-item callback, then
\* either expirationCheck or the return
AddUnlocked(t) ==
    LET l == th[t] IN
    /\ l.pc = "add_unlocked"
    /\ hist' = [hist EXCEPT ![l.item].nAdded = @ + 1]
    /\ IF NeedsCheck(heap[l.item].lifeSpan, l.expDur)
       THEN /\ th' = [th EXCEPT ![t].pc = "exp_lock"]
            /\ ret' = NoRet
       ELSE /\ th' = [th EXCEPT ![t] = Idle]
            /\ ret' = AddReturns(t, l.op, l.key, l.item, heap[l.item].data)
    /\ UNCHANGED <<table, heap, orphans, now, ops, sets, loads>>
    /\ UNCHANGED regVars

\* NotFoundAdd, lines 205-216, and addInternal
NotFoundAdd(t, key, data, lifeSpan) ==
    LET new == NewCacheItem(key, data, lifeSpan, now) IN
    /\ MayStart(t)
    /\ MayName(key)
    /\ ops' = ops + 1
    /\ table.lock = None
    /\ IF NotFoundAddHit(key)
       THEN /\ ret' = Returns("NotFoundAdd", t, key, Nil, Nil, None, FALSE)
            /\ UNCHANGED <<table, heap, hist, th>>
       ELSE /\ heap' = Append(heap, new)
            /\ StoreItem(t, "NotFoundAdd", key, Len(heap) + 1, new, th,
                         Append(hist, NoHist))
    /\ UNCHANGED <<orphans, now, sets, loads>>
    /\ UNCHANGED regVars

\* ---- Value
\* Value, lines 221-224 (the lookup under RLock), and lines 226-243 as far as
\* they need no further lock: the two error returns
ValueLookup(t, key) ==
    /\ MayStart(t)
    /\ MayName(key)
    /\ ops' = ops + 1
    /\ table.lock = None
    /\ IF ValueHit(key)
       THEN /\ th' = [th EXCEPT ![t] = [Idle EXCEPT !.pc = "ka", !.op = "Value",
                                 !.key = key, !.item = table.items[key]]]
            /\ ret' = NoRet
       ELSE IF table.loadData # "nil"
       THEN /\ th' = [th EXCEPT ![t] = [Idle EXCEPT !.pc = "load", !.op = "Value",
                                 !.key = key, !.cb = LoaderReturnsItem(table.loadData)]]
            /\ ret' = NoRet
       ELSE /\ ret' = Returns("Value", t, key, Nil, Nil, "ErrKeyNotFound", FALSE)
            /\ UNCHANGED th
    /\ UNCHANGED <<table, heap, orphans, now, hist, sets, loads>>
    /\ UNCHANGED regVars

\* Value, lines 228-229: r.KeepAlive() and the return, when item.Lock() is
\* granted at once; otherwise the goroutine waits inside item.Lock()
ValueKeepAlive(t) ==
    /\ th[t].pc = "ka"
    /\ IF CanLock(th[t].item)
       THEN /\ heap' = [heap EXCEPT ![th[t].item] = KeepAlive(@, now)]
            /\ th' = [th EXCEPT ![t] = Idle]
            /\ ret' = Returns("Value", t, th[t].key, th[t].item,
                              heap[th[t].item].data, None, TRUE)
       ELSE /\ th' = [th EXCEPT ![t].pc = "ka_wait"]
            /\ ret' = NoRet
            /\ UNCHANGED heap
    /\ UNCHANGED <<table, orphans, now, ops, hist, sets, loads>>
    /\ UNCHANGED regVars

\* KeepAlive once the readers of the item have left
ValueKeepAliveWaited(t) ==
    /\ th[t].pc = "ka_wait"
    /\ th[t].op = "Value"
    /\ CanLock(th[t].item)
    /\ heap' = [heap EXCEPT ![th[t].item] = KeepAlive(@, now)]
    /\ th' = [th EXCEPT ![t] = Idle]
    /\ ret' = Returns("Value", t, th[t].key, th[t].item,
                      heap[th[t].item].data, None, TRUE)
    /\ UNCHANGED <<table, orphans, now, ops, hist, sets, loads>>
    /\ UNCHANGED regVars

\* CacheItem.KeepAlive called by a client on an item the table has handed
\* out: at once when item.Lock() is granted, else after waiting inside it
KeepAliveCall(t, i) ==
    /\ MayStart(t)
    /\ ops' = ops + 1
    /\ \A u \in Threads : ~(th[u].pc = "add_lock" /\ th[u].item = i)
    /\ IF CanLock(i)
       THEN /\ heap' = [heap EXCEPT ![i] = KeepAlive(@, now)]
            /\ ret' = Returns("KeepAlive", t, Nil, i, Nil, None, TRUE)
            /\ UNCHANGED th
       ELSE /\ th' = [th EXCEPT ![t] = [Idle EXCEPT !.pc = "ka_wait",
                         !.op = "KeepAlive", !.item = i]]
            /\ ret' = NoRet
            /\ UNCHANGED heap
    /\ UNCHANGED <<table, orphans, now, hist, sets, loads>>
    /\ UNCHANGED regVars

KeepAliveCallWaited(t) ==
    /\ th[t].pc = "ka_wait"
    /\ th[t].op = "KeepAlive"
    /\ CanLock(th[t].item)
    /\ heap' = [heap EXCEPT ![th[t].item] = KeepAlive(@, now)]
    /\ th' = [th EXCEPT ![t] = Idle]
    /\ ret' = Returns("KeepAlive", t, Nil, th[t].item, Nil, None, TRUE)
    /\ UNCHANGED <<table, orphans, now, ops, hist, sets, loads>>
    /\ UNCHANGED regVars

\* Value, lines 233-240: the data loader is invoked; with an item it goes on
\* into Add (line 236, and Add's NewCacheItem, line 83), with nil it returns
ValueLoad(t) ==
    /\ th[t].pc = "load"
    /\ loads' = [loads EXCEPT ![th[t].key] = @ + 1]
    /\ IF th[t].cb
       THEN /\ heap' = Append(heap, NewCacheItem(th[t].key, LoadedData(th[t].key),
                                                 LoaderLifeSpan, now))
            /\ hist' = Append(hist, NoHist)
            /\ th' = [th EXCEPT ![t] = [@ EXCEPT !.pc = "add_lock",
                                          !.item = Len(heap) + 1, !.cb = FALSE]]
            /\ ret' = NoRet
       ELSE /\ th' = [th EXCEPT ![t] = Idle]
            /\ ret' = Returns("Value", t, th[t].key, Nil, Nil,
                              "ErrKeyNotFoundOrLoadable", FALSE)
            /\ UNCHANGED <<heap, hist>>
    /\ UNCHANGED <<table, orphans, now, ops, sets>>
    /\ UNCHANGED regVars

\* ---- Delete and deleteInternal
\* a deleteInternal that keeps the table lock over its callbacks (mutation of
\* line 166)
KeepLockForCallbacks(t) == t
\* deleteInternal, line 166: table.Unlock() before the callbacks; the holder
\* of the table lock is none
UnlockForCallbacks(t) == None
\* a deleteInternal that goes to table.Lock() (line 179) without invoking a
\* callback (mutation of lines 169-177)
AfterDeleteUnlockNoCallback(r) == "del_lock"
\* deleteInternal after its Unlock (line 166): the goroutine holds no lock
\* and has lines 169-177 before it
AfterDeleteUnlock(r) == "del_unlocked"

\* Delete, lines 188-191, and deleteInternal, lines 160-166: the lookup; an
\* absent key returns through Delete's deferred Unlock
Delete(t, key) ==
    /\ MayStart(t)
    /\ MayName(key)
    /\ ops' = ops + 1
    /\ table.lock = None
    /\ IF Present(key)
       THEN /\ th' = [th EXCEPT ![t] = [Idle EXCEPT
                         !.pc = AfterDeleteUnlock(table.items[key]),
                         !.op = "Delete", !.key = key, !.dkey = key,
                         !.r = table.items[key],
                         !.cb = table.aboutToDeleteItem]]
            /\ ret' = NoRet
       ELSE /\ ret' = Returns("Delete", t, key, Nil, Nil, "ErrKeyNotFound", FALSE)
            /\ UNCHANGED th
    /\ UNCHANGED <<table, heap, orphans, now, hist, sets, loads>>
    /\ UNCHANGED regVars

\* deleteInternal, lines 169-171: the about-to-delete callback, table unlocked
DeleteCallback(t) ==
    /\ th[t].pc = "del_unlocked"
    /\ th[t].cb
    /\ hist' = [hist EXCEPT ![th[t].r].nDel = @ + 1]
    /\ th' = [th EXCEPT ![t].cb = FALSE]
    /\ ret' = NoRet
    /\ UNCHANGED <<table, heap, orphans, now, ops, sets, loads>>
    /\ UNCHANGED regVars

\* deleteInternal, lines 173-177: r.RLock(), kept until the return, and the
\* item's about-to-expire callback
DeleteRLock(t) ==
    /\ th[t].pc = "del_unlocked"
    /\ ~th[t].cb
    /\ CanRLock(th[t].r)
    /\ hist' = IF heap[th[t].r].aboutToExpire
               THEN [hist EXCEPT ![th[t].r].nExp = @ + 1] ELSE hist
    /\ th' = [th EXCEPT ![t].pc = "del_lock"]
    /\ ret' = NoRet
    /\ UNCHANGED <<table, heap, orphans, now, ops, sets, loads>>
    /\ UNCHANGED regVars

\* deleteInternal, lines 179-183: table.Lock(), delete(table.items, key), the
\* deferred r.RUnlock(); then Delete's deferred Unlock and return (line 189),
\* or back into the loop of expirationCheck with the lock held
DeleteRemove(t) ==
    LET key == th[t].dkey
        gone == table.items[key]
        T == IF gone = Nil THEN th ELSE IterOnDelete(th, key)
    IN
    /\ th[t].pc = "del_lock"
    /\ table.lock = None
    /\ IF th[t].op = "Delete"
       THEN /\ table' = [table EXCEPT !.items[key] = Nil]
            /\ th' = [T EXCEPT ![t] = Idle]
            /\ ret' = Returns("Delete", t, key, th[t].r,
                              heap[th[t].r].data, None, TRUE)
       ELSE /\ table' = [table EXCEPT !.items[key] = Nil, !.lock = t]
            /\ th' = [T EXCEPT ![t] = [@ EXCEPT !.pc = "exp_loop", !.dkey = Nil,
                                                !.r = Nil, !.seen = Nil]]
            /\ ret' = NoRet
    /\ hist' = [hist EXCEPT ![th[t].r].nGone = @ + 1]
    /\ UNCHANGED <<heap, orphans, now, ops, sets, loads>>
    /\ UNCHANGED regVars

\* ---- expirationCheck
\* lines 94-105: Lock, stop the timer, read the clock, enter the loop
ExpirationLock(t) ==
    /\ th[t].pc = "exp_lock"
    /\ table.lock = None
    /\ table' = [table EXCEPT !.lock = t, !.cleanupTimer = Stopped(@)]
    /\ th' = [th EXCEPT ![t] = [@ EXCEPT !.pc = "exp_loop", !.snow = now,
                 !.smallest = 0, !.iter = "live",
                 !.todo = {k \in Keys : Present(k)}, !.opt = {}]]
    /\ ret' = NoRet
    /\ UNCHANGED <<heap, orphans, now, ops, hist, sets, loads>>
    /\ UNCHANGED regVars

\* lines 106-125: one pass of the loop body for the key the range produces,
\* up to deleteInternal's Unlock (line 166) when the item has expired
ExpirationVisit(t, key) ==
    LET l == th[t]
        i == IF l.iter = "live" THEN table.items[key] ELSE l.snap[key]
        lifeSpan == heap[i].lifeSpan
        accessedOn == heap[i].accessedOn
        rest == [l EXCEPT !.todo = @ \ {key}, !.opt = @ \ {key}]
    IN
    /\ l.pc = "exp_loop"
    /\ key \in l.todo \cup l.opt
    /\ CanRLock(i)
    /\ IF lifeSpan = 0
       THEN /\ th' = [th EXCEPT ![t] = rest]
            /\ UNCHANGED table
       ELSE IF Expired(l.snow, accessedOn, lifeSpan)
       THEN IF Present(key)
            THEN /\ table' = [table EXCEPT !.lock = UnlockForCallbacks(t)]
                 /\ th' = [th EXCEPT ![t] = [rest EXCEPT
                              !.pc = AfterDeleteUnlock(table.items[key]),
                              !.seen = i, !.dkey = key, !.r = table.items[key],
                              !.cb = table.aboutToDeleteItem]]
            ELSE /\ th' = [th EXCEPT ![t] = rest]
                 /\ UNCHANGED table
       ELSE /\ th' = [th EXCEPT ![t] = [rest EXCEPT !.smallest =
                         NextSmallest(l.smallest, l.snow, accessedOn, lifeSpan)]]
            /\ UNCHANGED table
    /\ ret' = NoRet
    /\ UNCHANGED <<heap, orphans, now, ops, sets, hist, loads>>
    /\ UNCHANGED regVars

\* lines 127-135: the loop is over; set cleanupInterval, arm the timer, Unlock.
\* A timer that table.cleanupTimer referred to and that is still armed goes on
\* running without a reference.
ExpirationArm(t) ==
    LET l == th[t]
        old == table.cleanupTimer
    IN
    /\ l.pc = "exp_loop"
    /\ l.todo = {}
    /\ table' = [table EXCEPT !.lock = None, !.cleanupInterval = l.smallest,
                    !.cleanupTimer = IF l.smallest > 0
                                     THEN [armed |-> TRUE, at |-> now + l.smallest]
                                     ELSE @]
    /\ orphans' = IF l.smallest > 0 /\ old.armed
                  THEN [orphans EXCEPT ![old.at] = @ + 1] ELSE orphans
    /\ ret' = IF l.op = "Sweep" THEN NoRet
              ELSE AddReturns(t, l.op, l.key, l.item, heap[l.item].data)
    /\ th' = [th EXCEPT ![t] = Idle]
    /\ UNCHANGED <<heap, now, ops, hist, sets, loads>>
    /\ UNCHANGED regVars

\* lines 130-132: the timer fires and starts a goroutine on expirationCheck
TimerFire(t) ==
    /\ t \in Sweepers
    /\ th[t].pc = "idle"
    /\ table.cleanupTimer.armed
    /\ table.cleanupTimer.at <= now
    /\ table' = [table EXCEPT !.cleanupTimer = NoTimer]
    /\ th' = [th EXCEPT ![t] = [Idle EXCEPT !.pc = "exp_lock", !.op = "Sweep"]]
    /\ ret' = NoRet
    /\ UNCHANGED <<heap, orphans, now, ops, hist, sets, loads>>
    /\ UNCHANGED regVars

OrphanFire(t, at) ==
    /\ t \in Sweepers
    /\ th[t].pc = "idle"
    /\ orphans[at] > 0
    /\ at <= now
    /\ orphans' = [orphans EXCEPT ![at] = @ - 1]
    /\ th' = [th EXCEPT ![t] = [Idle EXCEPT !.pc = "exp_lock", !.op = "Sweep"]]
    /\ ret' = NoRet
    /\ UNCHANGED <<table, heap, now, ops, hist, sets, loads>>
    /\ UNCHANGED regVars

\* ---- Count, lines 37-41: len(table.items) under RLock
Count == Cardinality({k \in DOMAIN table.items : table.items[k] # Nil})

\* ---- Flush, lines 248-256
Flush(t) ==
    /\ MayStart(t)
    /\ ops' = ops + 1
    /\ table.lock = None
    /\ table' = [table EXCEPT !.items = [k \in Keys |-> Nil],
                    !.cleanupTimer = Stopped(@),
                    !.cleanupInterval = FlushInterval,
                    !.flushed = "yes"]
    /\ th' = IterOnFlush(th)
    /\ ret' = Returns("Flush", t, Nil, Nil, Nil, None, TRUE)
    /\ UNCHANGED <<heap, orphans, now, sets, hist, loads>>
    /\ UNCHANGED regVars

\* ---- the setters
\* the table is configured before it is used: its setters are called first
Configuring == sets = ops

\* SetDataLoader, lines 54-58; the loader returns an item or nil
SetDataLoader(t, f) ==
    /\ MayStart(t)
    /\ Configuring
    /\ ops' = ops + 1
    /\ sets' = sets + 1
    /\ table.lock = None
    /\ table.loadData = "nil"
    /\ table' = [table EXCEPT !.loadData = f]
    /\ ret' = NoRet
    /\ UNCHANGED <<heap, orphans, now, th, hist, loads>>
    /\ UNCHANGED regVars

\* SetAddedItemCallback, lines 61-65
SetAddedItemCallback(t) ==
    /\ MayStart(t)
    /\ Configuring
    /\ ops' = ops + 1
    /\ sets' = sets + 1
    /\ table.lock = None
    /\ ~table.addedItem
    /\ table' = [table EXCEPT !.addedItem = TRUE]
    /\ ret' = NoRet
    /\ UNCHANGED <<heap, orphans, now, th, hist, loads>>
    /\ UNCHANGED regVars

\* SetAboutToDeleteItemCallback, lines 68-72
SetAboutToDeleteItemCallback(t) ==
    /\ MayStart(t)
    /\ Configuring
    /\ ops' = ops + 1
    /\ sets' = sets + 1
    /\ table.lock = None
    /\ ~table.aboutToDeleteItem
    /\ table' = [table EXCEPT !.aboutToDeleteItem = TRUE]
    /\ ret' = NoRet
    /\ UNCHANGED <<heap, orphans, now, th, hist, loads>>
    /\ UNCHANGED regVars

\* CacheItem.SetAboutToExpireCallback on an item the table has handed out:
\* at once when item.Lock() is granted, else after waiting inside item.Lock()
SetAboutToExpireCallback(t, i) ==
    /\ MayStart(t)
    /\ ops' = ops + 1
    /\ \A u \in Threads : ~(th[u].pc = "add_lock" /\ th[u].item = i)
    /\ ~heap[i].aboutToExpire
    /\ IF CanLock(i)
       THEN /\ heap' = [heap EXCEPT ![i].aboutToExpire = TRUE]
            /\ UNCHANGED th
       ELSE /\ th' = [th EXCEPT ![t] = [Idle EXCEPT !.pc = "cb_wait",
                         !.op = "SetAboutToExpireCallback", !.item = i]]
            /\ UNCHANGED heap
    /\ ret' = NoRet
    /\ UNCHANGED <<table, orphans, now, sets, hist, loads>>
    /\ UNCHANGED regVars

SetAboutToExpireCallbackWaited(t) ==
    /\ th[t].pc = "cb_wait"
    /\ CanLock(th[t].item)
    /\ heap' = [heap EXCEPT ![th[t].item].aboutToExpire = TRUE]
    /\ th' = [th EXCEPT ![t] = Idle]
    /\ ret' = NoRet
    /\ UNCHANGED <<table, orphans, now, ops, sets, hist, loads>>
    /\ UNCHANGED regVars

\* ---- the clock
\* The clock advances between critical sections of the table lock, not inside
\* one, and a timer that is due fires before the clock advances again when a
\* goroutine can be had for it.  From MaxBusyTime on it advances only while no
\* goroutine is inside an operation or a sweep.  Calls begin up to MaxTime;
\* after that the clock runs on for as long as something is still to come: a
\* timer armed for a later moment, or an entry whose lifeSpan has not run out.
TimerDue ==
    \/ table.cleanupTimer.armed /\ table.cleanupTimer.at <= now
    \/ \E at \in Times : orphans[at] > 0 /\ at <= now
\* While the table holds no item with a lifeSpan, no timer is armed and no
\* goroutine is in an operation, nothing depends on the clock: it is left alone.
Timed ==
    \/ \E k \in Keys : Present(k) /\ heap[table.items[k]].lifeSpan > 0
    \/ table.cleanupTimer.armed
    \/ \E at \in Times : orphans[at] > 0
    \/ \E t \in Threads : th[t].pc # "idle"
TimerPending ==
    \/ table.cleanupTimer.armed /\ table.cleanupTimer.at > now
    \/ \E at \in Times : orphans[at] > 0 /\ at > now
Unexpired ==
    \E k \in Keys : /\ Present(k)
                    /\ heap[table.items[k]].lifeSpan > 0
                    /\ now - heap[table.items[k]].accessedOn
                          < heap[table.items[k]].lifeSpan
Tick ==
    /\ now < MaxTime \/ TimerPending \/ Unexpired
    /\ now < MaxBusyTime \/ \A t \in Threads : th[t].pc = "idle"
    /\ table.lock = None
    /\ Timed
    /\ ~(TimerDue /\ \E t \in Sweepers : th[t].pc = "idle")
    /\ now' = now + 1
    /\ ret' = NoRet
    /\ UNCHANGED <<table, heap, orphans, th, ops, hist, sets, loads>>
    /\ UNCHANGED regVars

\* ================================================================ specification
\* a table as Cache constructs it (lines 21-24 of Cache), no goroutine in it
TabInit ==
    /\ table = [items |-> [k \in Keys |-> Nil], cleanupTimer |-> NoTimer,
                cleanupInterval |-> 0, loadData |-> "nil", addedItem |-> FALSE,
                aboutToDeleteItem |-> FALSE, lock |-> None,
                flushed |-> "no"]
    /\ heap = <<>>
    /\ orphans = [at \in Times |-> 0]
    /\ now = 0
    /\ th = [t \in Threads |-> Idle]
    /\ ops = 0
    /\ sets = 0
    /\ ret = NoRet
    /\ hist = <<>>
    /\ loads = [k \in Keys |-> 0]

Init == RegInit /\ TabInit

ClientStep(t) ==
    \/ \E key \in Keys, lifeSpan \in LifeSpans :
          \/ Add(t, key, ops + 1, lifeSpan)
          \/ NotFoundAdd(t, key, ops + 1, lifeSpan)
    \/ \E key \in Keys : ValueLookup(t, key) \/ Delete(t, key)
    \/ Flush(t)
    \/ \E f \in {"item", "none"} : SetDataLoader(t, f)
    \/ SetAddedItemCallback(t)
    \/ SetAboutToDeleteItemCallback(t)
    \/ \E i \in ItemIds : SetAboutToExpireCallback(t, i) \/ KeepAliveCall(t, i)

Step(t) ==
    \/ AddLocked(t)
    \/ AddUnlocked(t)
    \/ ValueKeepAlive(t)
    \/ ValueKeepAliveWaited(t)
    \/ KeepAliveCallWaited(t)
    \/ ValueLoad(t)
    \/ DeleteCallback(t)
    \/ DeleteRLock(t)
    \/ DeleteRemove(t)
    \/ ExpirationLock(t)
    \/ \E key \in Keys : ExpirationVisit(t, key)
    \/ ExpirationArm(t)
    \/ SetAboutToExpireCallbackWaited(t)

TabNext ==
    \/ \E t \in Clients : ClientStep(t)
    \/ \E t \in Threads : Step(t)
    \/ \E t \in Sweepers : TimerFire(t) \/ \E at \in Times : OrphanFire(t, at)
    \/ Tick

\* the table and the goroutines working on it
Spec == Init /\ [][TabNext]_vars

\* the registry
SpecCache == Init /\ [][RegNext]_vars

\* The table under fair scheduling: time passes, an armed timer fires, and a
\* goroutine inside an operation or a sweep that can take its next step
\* takes it.  Nothing obliges a client to begin another operation.
FairSpec ==
    /\ Init /\ [][TabNext]_vars
    /\ WF_vars(Tick)
    /\ \A t \in Threads : WF_vars(Step(t))
    /\ \A t \in Sweepers :
          WF_vars(TimerFire(t) \/ \E at \in Times : OrphanFire(t, at))

\* The table after SetAboutToDeleteItemCallback has been called on it, as the
\* first call of all: the about-to-delete callback is set from the start and
\* the calls counted by ops all come after it.
ConfiguredInit ==
    /\ RegInit
    /\ table = [items |-> [k \in Keys |-> Nil], cleanupTimer |-> NoTimer,
                cleanupInterval |-> 0, loadData |-> "nil", addedItem |-> FALSE,
                aboutToDeleteItem |-> TRUE, lock |-> None,
                flushed |-> "no"]
    /\ heap = <<>>
    /\ orphans = [at \in Times |-> 0]
    /\ now = 0
    /\ th = [t \in Threads |-> Idle]
    /\ ops = 0
    /\ sets = 0
    /\ ret = NoRet
    /\ hist = <<>>
    /\ loads = [k \in Keys |-> 0]

\* calls and steps of Add, Delete and the sweep, the operations that the
\* about-to-delete callback takes part in
ConfiguredNext ==
    \/ \E t \in Clients :
          \/ \E key \in Keys, lifeSpan \in LifeSpans :
                Add(t, key, ops + 1, lifeSpan)
          \/ \E key \in Keys : Delete(t, key)
          \/ \E i \in ItemIds : SetAboutToExpireCallback(t, i)
    \/ \E t \in Threads :
          \/ AddLocked(t)
          \/ DeleteCallback(t)
          \/ DeleteRLock(t)
          \/ DeleteRemove(t)
          \/ ExpirationLock(t)
          \/ \E key \in Keys : ExpirationVisit(t, key)
          \/ ExpirationArm(t)
          \/ SetAboutToExpireCallbackWaited(t)
    \/ \E t \in Sweepers : TimerFire(t) \/ \E at \in Times : OrphanFire(t, at)
    \/ Tick

\* the table with its about-to-delete callback set
SpecConfigured == ConfiguredInit /\ [][ConfiguredNext]_vars

\* ================================================================ callbacks that call Value
\* A callback is user code and may call into the table.  Here the added-item
\* callback, the about-to-delete callback and every entry's about-to-expire
\* callback call table.Value(key) with the key of the entry they are invoked
\* with, and return when Value has returned.  A goroutine in such a callback
\* stands before Value's table.RLock() ("cbv"), before r.KeepAlive() with the
\* item found ("cbv_ka"), or inside KeepAlive's item.Lock() ("cbv_wait").

\* addInternal, lines 153-156, after the added-item callback
AfterAdded(l) ==
    IF NeedsCheck(heap[l.item].lifeSpan, l.expDur)
    THEN [l EXCEPT !.pc = "exp_lock", !.from = None, !.vr = Nil] ELSE Idle
AfterAddedRet(t, l) ==
    IF NeedsCheck(heap[l.item].lifeSpan, l.expDur)
    THEN NoRet ELSE AddReturns(t, l.op, l.key, l.item, heap[l.item].data)
\* deleteInternal, line 173, after the about-to-delete callback
AfterAboutToDelete(l) ==
    [l EXCEPT !.pc = "del_unlocked", !.cb = FALSE, !.from = None, !.vr = Nil]
\* deleteInternal, line 179, after the about-to-expire callback
AfterAboutToExpire(l) == [l EXCEPT !.pc = "del_lock", !.from = None, !.vr = Nil]
\* the goroutine, and what its operation has returned, once the callback it
\* is in has returned
AfterCallback(l) ==
    IF l.from = "added" THEN AfterAdded(l)
    ELSE IF l.from = "del" THEN AfterAboutToDelete(l)
    ELSE AfterAboutToExpire(l)
AfterCallbackRet(t, l) == IF l.from = "added" THEN AfterAddedRet(t, l) ELSE NoRet

\* addInternal, lines 149-151: the added-item callback is invoked and calls
\* Value(key)
AddedItemCallsValue(t) ==
    LET l == th[t] IN
    /\ l.pc = "add_unlocked"
    /\ hist' = [hist EXCEPT ![l.item].nAdded = @ + 1]
    /\ th' = [th EXCEPT ![t] = [l EXCEPT !.pc = "cbv", !.from = "added"]]
    /\ ret' = NoRet
    /\ UNCHANGED <<table, heap, orphans, now, ops, sets, loads>>
    /\ UNCHANGED regVars

\* deleteInternal, lines 169-171: the about-to-delete callback is invoked and
\* calls Value(key)
AboutToDeleteCallsValue(t) ==
    LET l == th[t] IN
    /\ l.pc = "del_unlocked"
    /\ l.cb
    /\ hist' = [hist EXCEPT ![l.r].nDel = @ + 1]
    /\ th' = [th EXCEPT ![t] = [l EXCEPT !.pc = "cbv", !.from = "del"]]
    /\ ret' = NoRet
    /\ UNCHANGED <<table, heap, orphans, now, ops, sets, loads>>
    /\ UNCHANGED regVars

\* deleteInternal, lines 173-177: r.RLock(), kept until the return; the
\* entry's about-to-expire callback, if set, is invoked with the RLock held
\* and calls Value(key); with none the goroutine goes on to table.Lock()
AboutToExpireCallsValue(t) ==
    LET l == th[t] IN
    /\ l.pc = "del_unlocked"
    /\ ~l.cb
    /\ CanRLock(l.r)
    /\ IF heap[l.r].aboutToExpire
       THEN /\ hist' = [hist EXCEPT ![l.r].nExp = @ + 1]
            /\ th' = [th EXCEPT ![t] = [l EXCEPT !.pc = "cbv", !.from = "expire"]]
       ELSE /\ th' = [th EXCEPT ![t].pc = "del_lock"]
            /\ UNCHANGED hist
    /\ ret' = NoRet
    /\ UNCHANGED <<table, heap, orphans, now, ops, sets, loads>>
    /\ UNCHANGED regVars

\* Value as the callback calls it, lines 221-226: the lookup under RLock; with
\* the key absent and no loader Value returns ErrKeyNotFound and the
\* callback returns
CallbackValueLookup(t) ==
    LET l == th[t]
        key == IF l.from = "added" THEN l.key ELSE l.dkey
    IN
    /\ l.pc = "cbv"
    /\ table.lock = None
    /\ IF ValueHit(key)
       THEN /\ th' = [th EXCEPT ![t] = [l EXCEPT !.pc = "cbv_ka",
                                          !.vr = table.items[key]]]
            /\ ret' = NoRet
       ELSE /\ th' = [th EXCEPT ![t] = AfterCallback(l)]
            /\ ret' = AfterCallbackRet(t, l)
    /\ UNCHANGED <<table, heap, orphans, now, ops, hist, sets, loads>>
    /\ UNCHANGED regVars

\* Value, lines 228-229: r.KeepAlive() and the return, when item.Lock() is
\* granted at once; otherwise the goroutine waits inside item.Lock()
CallbackValueKeepAlive(t) ==
    LET l == th[t] IN
    /\ l.pc = "cbv_ka"
    /\ IF CanLock(l.vr)
       THEN /\ heap' = [heap EXCEPT ![l.vr] = KeepAlive(@, now)]
            /\ th' = [th EXCEPT ![t] = AfterCallback(l)]
            /\ ret' = AfterCallbackRet(t, l)
       ELSE /\ th' = [th EXCEPT ![t].pc = "cbv_wait"]
            /\ ret' = NoRet
            /\ UNCHANGED heap
    /\ UNCHANGED <<table, orphans, now, ops, hist, sets, loads>>
    /\ UNCHANGED regVars

\* KeepAlive once the readers of the item have left; Value and the callback
\* return
CallbackValueWaited(t) ==
    LET l == th[t] IN
    /\ l.pc = "cbv_wait"
    /\ CanLock(l.vr)
    /\ heap' = [heap EXCEPT ![l.vr] = KeepAlive(@, now)]
    /\ th' = [th EXCEPT ![t] = AfterCallback(l)]
    /\ ret' = AfterCallbackRet(t, l)
    /\ UNCHANGED <<table, orphans, now, ops, hist, sets, loads>>
    /\ UNCHANGED regVars

\* the table after SetAddedItemCallback and SetAboutToDeleteItemCallback
ReentrantInit ==
    /\ RegInit
    /\ table = [items |-> [k \in Keys |-> Nil], cleanupTimer |-> NoTimer,
                cleanupInterval |-> 0, loadData |-> "nil", addedItem |-> TRUE,
                aboutToDeleteItem |-> TRUE, lock |-> None,
                flushed |-> "no"]
    /\ heap = <<>>
    /\ orphans = [at \in Times |-> 0]
    /\ now = 0
    /\ th = [t \in Threads |-> Idle]
    /\ ops = 0
    /\ sets = 0
    /\ ret = NoRet
    /\ hist = <<>>
    /\ loads = [k \in Keys |-> 0]

ReentrantStep(t) ==
    \/ AddLocked(t)
    \/ AddedItemCallsValue(t)
    \/ AboutToDeleteCallsValue(t)
    \/ AboutToExpireCallsValue(t)
    \/ CallbackValueLookup(t)
    \/ CallbackValueKeepAlive(t)
    \/ CallbackValueWaited(t)
    \/ DeleteRemove(t)
    \/ ExpirationLock(t)
    \/ \E key \in Keys : ExpirationVisit(t, key)
    \/ ExpirationArm(t)
    \/ SetAboutToExpireCallbackWaited(t)

\* one client and the goroutine of the timer: the callbacks re-enter the
\* table in the goroutine that invoked them.
ReentrantNext ==
    \/ \E t \in {"c1"} :
          \/ \E key \in Keys, lifeSpan \in LifeSpans :
                Add(t, key, ops + 1, lifeSpan)
          \/ \E key \in Keys : Delete(t, key)
          \/ \E i \in ItemIds : SetAboutToExpireCallback(t, i)
    \/ \E t \in Threads : ReentrantStep(t)
    \/ \E t \in Sweepers : TimerFire(t) \/ \E at \in Times : OrphanFire(t, at)
    \/ Tick

\* the table whose callbacks call Value
SpecReentrant == ReentrantInit /\ [][ReentrantNext]_vars

\* ================================================================ MostAccessed
\* MostAccessed holds table.RLock() from line 275 to its return: Add, Delete,
\* Flush and the sweep wait for it, Value and an entry's KeepAlive do not.
\* The table's content, keys 1..MaxEntries with any accessCount each, is
\* drawn by MostInit; beside the call, clients access the entries.

\* CacheItemPairList.Less, line 270, on two AccessCount values
Less(a, b) == a > b

\* the orders sort.Sort (line 284, not stable) may leave the pairs q in: no
\* pair is Less than one before it
Sorted(q) ==
    \A a, b \in DOMAIN q : a < b => ~Less(q[b].AccessCount, q[a].AccessCount)
Pairs(q) ==
    LET perms == {f \in [DOMAIN q -> DOMAIN q] :
                    \A a, b \in DOMAIN q : a # b => f[a] # f[b]} IN
    {s \in {[j \in DOMAIN q |-> q[f[j]]] : f \in perms} : Sorted(s)}

\* lines 286-298: the loop that collects the items of the leading pairs
RECURSIVE Collect(_, _, _)
Collect(q, c, count) ==
    IF q = <<>> \/ c >= count THEN <<>>
    ELSE (IF table.items[Head(q).Key] # Nil
          THEN <<table.items[Head(q).Key]>> ELSE <<>>)
         \o Collect(Tail(q), c + 1, count)

\* lines 275-279: table.RLock() and the allocation of p; one call of
\* MostAccessed at a time
MostAccessed(t, count) ==
    /\ MayStart(t)
    /\ \A u \in Clients : th[u].op # "MostAccessed"
    /\ ops' = ops + 1
    /\ table.lock = None
    /\ th' = [th EXCEPT ![t] = [Idle EXCEPT !.pc = "most", !.op = "MostAccessed",
                                            !.count = count]]
    /\ ret' = NoRet
    /\ UNCHANGED <<table, heap, orphans, now, sets, hist, loads>>
    /\ UNCHANGED regVars

\* lines 280-283, one round of the range loop: the entry under a key not
\* yet produced, and v.accessCount as it is at this moment.  The read takes
\* no lock of the entry: it yields the count before or after a KeepAlive
\* that runs beside it.
MostAccessedRead(t, k) ==
    /\ th[t].pc = "most"
    /\ k \in DOMAIN table.items /\ table.items[k] # Nil
    /\ \A j \in DOMAIN th[t].p : th[t].p[j].Key # k
    /\ th' = [th EXCEPT ![t].p =
                 Append(@, [Key |-> k,
                            AccessCount |-> heap[table.items[k]].accessCount])]
    /\ ret' = NoRet
    /\ UNCHANGED <<table, heap, orphans, now, ops, sets, hist, loads>>
    /\ UNCHANGED regVars

\* lines 284-300: sort.Sort(p), the collecting loop, the return and the
\* deferred RUnlock
MostAccessedSort(t) ==
    /\ th[t].pc = "most"
    /\ Len(th[t].p) = Count
    /\ th' = [th EXCEPT ![t] = Idle]
    /\ \E q \in Pairs(th[t].p) :
          ret' = Returns("MostAccessed", t, th[t].count, Nil,
                         Collect(q, 0, th[t].count), None, TRUE)
    /\ UNCHANGED <<table, heap, orphans, now, ops, sets, hist, loads>>
    /\ UNCHANGED regVars

MostInit ==
    /\ RegInit
    /\ \E present \in SUBSET (1..MaxEntries) :
          table = [items |-> [k \in 1..MaxEntries |->
                                 IF k \in present THEN k ELSE Nil],
                   cleanupTimer |-> NoTimer, cleanupInterval |-> 0,
                   loadData |-> "nil", addedItem |-> FALSE,
                   aboutToDeleteItem |-> FALSE, lock |-> None, flushed |-> "no"]
    /\ \E cnt \in [1..MaxEntries -> 0..MaxCount] :
          heap = [i \in 1..MaxEntries |->
                    [NewCacheItem(i, i, 0, 0) EXCEPT !.accessCount = cnt[i]]]
    /\ orphans = [at \in Times |-> 0]
    /\ now = 0
    /\ th = [t \in Threads |-> Idle]
    /\ ops = 0
    /\ sets = 0
    /\ ret = NoRet
    /\ hist = [i \in 1..MaxEntries |-> NoHist]
    /\ loads = [k \in Keys |-> 0]

\* one MostAccessed at a time, and beside it Value on a key and KeepAlive
\* on an entry of the table
MostNext ==
    \/ \E t \in Clients :
          \/ \E count \in (-1)..(MaxEntries + 1) : MostAccessed(t, count)
          \/ \E k \in 1..MaxEntries : MostAccessedRead(t, k)
          \/ MostAccessedSort(t)
          \/ \E key \in Keys : ValueLookup(t, key)
          \/ ValueKeepAlive(t)
          \/ \E k \in 1..MaxEntries :
                table.items[k] # Nil /\ KeepAliveCall(t, table.items[k])

SpecMostAccessed == MostInit /\ [][MostNext]_vars

\* ================================================================ claims
\* every goroutine is outside the table's operations, no sweep is running
Quiescent == \A t \in Threads : th[t].pc = "idle"

\* C1: Cache(name) creates at most one table per name: every call of
\* Cache(name), in any interleaving with other calls for that name, returns
\* the same CacheTable, and the registry never replaces a stored table.
C1_OneTablePerName ==
    \A n \in Names : Cardinality(got[n]) <= 1

\* the items in the table
InTable(i) == \E k \in Keys : table.items[k] = i
\* a timer is armed (not stopped, not fired) that fires by time d
ArmedBy(d) ==
    \/ table.cleanupTimer.armed /\ table.cleanupTimer.at <= d
    \/ \E at \in Times : orphans[at] > 0 /\ at <= d

\* C2: in every quiescent state, if the table holds an entry with nonzero
\* lifeSpan, a cleanup timer is armed and fires no later than that entry's
\* expiry moment accessedOn + lifeSpan.
C2_SweepScheduled ==
    Quiescent =>
        \A i \in ItemIds :
            InTable(i) /\ heap[i].lifeSpan > 0
                => ArmedBy(heap[i].accessedOn + heap[i].lifeSpan)


\* the entry under key k carries a lifeSpan that has run out
Stale(k) ==
    /\ Present(k)
    /\ heap[table.items[k]].lifeSpan > 0
    /\ now >= heap[table.items[k]].accessedOn + heap[table.items[k]].lifeSpan

\* C3: under fair scheduling an entry added with lifeSpan > 0 that is not
\* accessed, deleted or flushed afterwards is eventually removed by the
\* expiration sweep: no entry stays in the table forever, its lifeSpan run
\* out, with no operation and no sweep in progress.
C3_EventuallyRemoved ==
    \A k \in Keys : []<>(~(Quiescent /\ Stale(k)))

\* Under fair scheduling a timer that is armed comes due and fires: no entry
\* stays in the table forever, its lifeSpan run out, while a timer is armed
\* or pending.  An entry that does stay has no timer left to remove it.
AnyTimer ==
    \/ table.cleanupTimer.armed
    \/ \E at \in Times : orphans[at] > 0
ArmedTimerSweeps ==
    \A k \in Keys : []<>(~(Quiescent /\ Stale(k) /\ AnyTimer))

\* ---- steps of the sweep and of the exported operations, as they show in a
\* pair of states
\* goroutine t, inside expirationCheck, comes back from deleteInternal having
\* removed item i from the table
SweepRemoves(t, i) ==
    /\ th[t].pc = "del_lock" /\ th[t].op # "Delete"
    /\ th'[t].pc = "exp_loop"
    /\ i # Nil /\ i = table.items[th[t].dkey]

\* client t calls the exported operation op with key k
Called(t, op, k) ==
    /\ th[t].pc = "idle" /\ ops' = ops + 1 /\ sets' = sets
    /\ \/ th'[t].pc # "idle" /\ th'[t].op = op /\ th'[t].key = k
       \/ th'[t].pc = "idle" /\ ret'.op = op /\ ret'.by = t /\ ret'.key = k

\* C4: an entry stored with lifeSpan 0 is never removed from the table by the
\* expiration sweep, whatever Add, NotFoundAdd, Value, Delete and Flush calls
\* run beside the sweep.
C4_SweepKeepsLifeSpanZero ==
    [][\A t \in Threads : \A i \in ItemIds :
          SweepRemoves(t, i) => heap[i].lifeSpan # 0]_vars

\* C5: the sweep removes an entry only if the entry has been idle for at
\* least its lifeSpan: now - accessedOn >= lifeSpan when it is removed.
C5_SweepRemovesOnlyIdle ==
    [][\A t \in Threads : \A i \in ItemIds :
          SweepRemoves(t, i) => now - heap[i].accessedOn >= heap[i].lifeSpan]_vars

\* C6: for every entry the about-to-expire callback of the entry and the
\* about-to-delete callback of the table are invoked once, never a second
\* time, however Delete calls and sweeps on its key interleave.
C6_CallbacksOnce ==
    \A i \in ItemIds : hist[i].nDel <= 1 /\ hist[i].nExp <= 1

\* client t's call returns the error err for key k and has changed nothing
ErrorReturn(t, op, k, err) ==
    /\ ret' = Returns(op, t, k, Nil, Nil, err, FALSE)
    /\ th'[t].pc = "idle"
    /\ table'.items = table.items /\ heap' = heap /\ hist' = hist
    /\ table'.lock # t

\* client t's Value, having found item i, returns it after KeepAlive
ValueReturnsFound(t, i) ==
    /\ th[t].pc \in {"ka", "ka_wait"} /\ th[t].op = "Value" /\ th[t].item = i
    /\ th'[t].pc = "idle"
\* client t's own call of item i's KeepAlive returns
KeepAliveReturns(t, i) ==
    ret' = Returns("KeepAlive", t, Nil, i, Nil, None, TRUE)

\* C7: NotFoundAdd is an atomic insert-if-absent. Called with a key that is
\* present it returns false and leaves the table and every entry as they
\* are; called with an absent key it stores, in the same critical section, a
\* new entry with the caller's data (the value ops + 1 that the call passes)
\* under the key and returns true, so of the calls racing for an absent key
\* one stores and the others find the key present.
C7_NotFoundAddAtomic ==
    [][\A t \in Clients : \A k \in Keys :
        /\ Called(t, "NotFoundAdd", k) =>
             IF Present(k)
             THEN /\ ret' = Returns("NotFoundAdd", t, k, Nil, Nil, None, FALSE)
                  /\ table'.items = table.items /\ heap' = heap
             ELSE /\ Len(heap') = Len(heap) + 1
                  /\ table'.items[k] = Len(heap')
                  /\ \A j \in Keys \ {k} : table'.items[j] = table.items[j]
                  /\ heap'[Len(heap')].key = k
                  /\ heap'[Len(heap')].data = ops + 1
                  /\ th'[t].pc = "idle" => ret'.ok /\ ret'.item = Len(heap')
        /\ (th[t].op = "NotFoundAdd" /\ th[t].key = k /\ th'[t].pc = "idle")
             => ret' = Returns("NotFoundAdd", t, k, th[t].item,
                               heap[th[t].item].data, None, TRUE)]_vars

\* C7's case: a NotFoundAdd has just returned false for a key that another
\* goroutine's NotFoundAdd, still on its way to return true, has stored
C7_Witness ==
    /\ ret.op = "NotFoundAdd" /\ ~ret.ok /\ Present(ret.key)
    /\ \E t \in Clients :
          /\ th[t].op = "NotFoundAdd" /\ th[t].key = ret.key
          /\ table.items[ret.key] = th[t].item

\* C8: a successful Value on an existing key raises the accessCount of the
\* entry it found by exactly 1 and sets accessedOn to the time of the call,
\* not earlier than before; beside Value only a client's own call of the
\* entry's KeepAlive changes accessCount, also by 1, and it never decreases,
\* so N Value calls raise it by N.
C8_ValueCounts ==
    [][\A i \in ItemIds :
        /\ heap'[i].accessCount >= heap[i].accessCount
        /\ heap'[i].accessedOn >= heap[i].accessedOn
        /\ \A t \in Clients : ValueReturnsFound(t, i) =>
              /\ heap'[i].accessCount = heap[i].accessCount + 1
              /\ heap'[i].accessedOn = now
              /\ ret' = Returns("Value", t, th[t].key, i, heap[i].data, None, TRUE)
        /\ heap'[i].accessCount # heap[i].accessCount
              => /\ heap'[i].accessCount = heap[i].accessCount + 1
                 /\ \E t \in Clients : \/ ValueReturnsFound(t, i)
                                       \/ KeepAliveReturns(t, i)]_vars

\* C8's case: a Value of the second client, begun while the first client was
\* inside an operation, has returned an entry whose accessCount is now 2
C8_Witness ==
    \E i \in ItemIds :
        /\ heap[i].accessCount = 2
        /\ ret.op = "Value" /\ ret.item = i /\ ret.by = "c2"

\* client t, in Value, has invoked the loader and stands in Add (line 236)
ValueStoresLoaded(t, k) ==
    /\ th[t].pc = "add_lock" /\ th[t].op = "Value" /\ th[t].key = k
    /\ th'[t].pc # "add_lock"

\* C9, call by call: with a data loader that returns an entry for any key, a
\* Value that finds its key absent invokes the loader once, stores the
\* loaded data under the key with the loader's lifeSpan and returns the
\* loaded data; a Value that finds the key present does not invoke the
\* loader and returns the stored entry. The loader runs once for each Value
\* that misses and at no other time.
C9_LoadOnMissOnly ==
    [][\A t \in Clients : \A k \in Keys :
        /\ (Called(t, "Value", k) /\ Present(k)) =>
              /\ th'[t].pc = "ka" /\ th'[t].item = table.items[k]
              /\ loads' = loads
        /\ (Called(t, "Value", k) /\ ~Present(k) /\ table.loadData = "item") =>
              /\ th'[t].pc = "load"
              /\ loads' = loads /\ table' = table /\ heap' = heap
        /\ (th[t].pc = "load" /\ th[t].key = k /\ th'[t].pc # "load"
              /\ table.loadData = "item") =>
              /\ loads' = [loads EXCEPT ![k] = @ + 1]
              /\ th'[t].pc = "add_lock"
              /\ heap'[th'[t].item].data = LoadedData(k)
              /\ heap'[th'[t].item].lifeSpan = LoaderLifeSpan
        /\ ValueStoresLoaded(t, k) =>
              /\ table'.items[k] = th[t].item
              /\ heap'[th[t].item].data = LoadedData(k)
              /\ heap'[th[t].item].lifeSpan = LoaderLifeSpan
              /\ loads' = loads
        /\ (th[t].op = "Value" /\ th[t].key = k /\ th'[t].pc = "idle"
              /\ th[t].pc \notin {"ka", "ka_wait", "load"}) =>
              /\ ret'.op = "Value" /\ ret'.by = t /\ ret'.ok
              /\ ret'.data = LoadedData(k)
        /\ loads'[k] # loads[k] =>
              \E u \in Clients : th[u].pc = "load" /\ th[u].key = k
                                 /\ th'[u].pc # "load"]_vars

\* C9's case: the loader ran once for a key, the loaded entry is in the
\* table, and a later Value has just returned it, read once, with the loaded
\* data
C9_Witness ==
    /\ ret.op = "Value" /\ ret.ok /\ ret.item # Nil
    /\ loads[ret.key] = 1
    /\ table.items[ret.key] = ret.item
    /\ heap[ret.item].accessCount = 1
    /\ heap[ret.item].lifeSpan = LoaderLifeSpan
    /\ ret.data = LoadedData(ret.key)

\* C9 as stated, "the loader is invoked once per missing key": while a Value
\* that invoked the loader for a key has not yet stored what it loaded, no
\* second Value has invoked the loader for the same key.
C9_LoaderOncePerMissingKey ==
    \A k \in Keys :
        Cardinality({t \in Clients : /\ th[t].pc = "add_lock"
                                     /\ th[t].op = "Value"
                                     /\ th[t].key = k}) <= 1

\* C10: an operation on an absent key fails with its error and changes
\* nothing. Delete, and Value with no loader configured, return
\* ErrKeyNotFound; Value with a loader that returns nil invokes it and
\* returns ErrKeyNotFoundOrLoadable. The returned entry is nil, the entries of
\* the table are the same, no callback is invoked, and the caller does not
\* hold the table lock on return. No call returns an error otherwise.
C10_ErrorsChangeNothing ==
    [][\A t \in Clients : \A k \in Keys :
        /\ (Called(t, "Delete", k) /\ ~Present(k))
              => ErrorReturn(t, "Delete", k, "ErrKeyNotFound")
        /\ (Called(t, "Value", k) /\ ~Present(k) /\ table.loadData = "nil")
              => ErrorReturn(t, "Value", k, "ErrKeyNotFound")
        /\ (Called(t, "Value", k) /\ ~Present(k) /\ table.loadData = "none") =>
              /\ th'[t].pc = "load"
              /\ table' = table /\ heap' = heap /\ hist' = hist
        /\ (th[t].pc = "load" /\ th[t].key = k /\ th'[t].pc # "load"
              /\ table.loadData = "none")
              => ErrorReturn(t, "Value", k, "ErrKeyNotFoundOrLoadable")
        /\ (ret'.by = t /\ ret'.key = k /\ ret'.err # None) =>
              /\ ret'.item = Nil /\ ~ret'.ok
              /\ table'.items = table.items /\ heap' = heap /\ hist' = hist
              /\ table'.lock # t /\ th'[t].pc = "idle"
              /\ \/ Called(t, ret'.op, k) /\ ~Present(k)
                 \/ th[t].pc = "load" /\ th[t].key = k
                 \/ UNCHANGED vars]_vars

\* C10's case: the table holds an entry, and a Value for another, absent key
\* has just returned ErrKeyNotFoundOrLoadable from a loader that returns nil
C10_Witness ==
    /\ ret.op = "Value" /\ ret.err = "ErrKeyNotFoundOrLoadable"
    /\ ~Present(ret.key) /\ loads[ret.key] = 1
    /\ \E k \in Keys : Present(k)
    /\ table.lock = None

\* the steps of a Delete(k) by t on a present key, in their order: the call
\* looks the entry up and leaves the map as it is; then the about-to-delete
\* callback, then the entry's about-to-expire callback, neither changing the
\* map; the step that removes comes after both, returns the entry that was
\* looked up and leaves the key absent
DeleteInOrder(t, k) ==
    /\ (Called(t, "Delete", k) /\ Present(k)) =>
          /\ th'[t].r = table.items[k] /\ th'[t].dkey = k
          /\ table' = table /\ hist' = hist
          /\ th'[t].cb = table.aboutToDeleteItem
          /\ (table.aboutToDeleteItem \/ heap[table.items[k]].aboutToExpire)
                => th'[t].pc = "del_unlocked"
    /\ (th[t].op = "Delete" /\ th[t].dkey = k /\ th[t].pc = "del_unlocked") =>
          LET r == th[t].r IN
          /\ (th[t].cb /\ th'[t] # th[t]) =>
                /\ th'[t].pc = "del_unlocked" /\ ~th'[t].cb
                /\ hist'[r].nDel = hist[r].nDel + 1
                /\ hist'[r].nExp = hist[r].nExp
                /\ table' = table
          /\ th'[t].pc # "del_unlocked" =>
                /\ ~th[t].cb /\ th'[t].pc = "del_lock"
                /\ hist'[r].nDel = hist[r].nDel
                /\ hist'[r].nExp = hist[r].nExp
                                   + (IF heap[r].aboutToExpire THEN 1 ELSE 0)
                /\ table' = table
    /\ (th[t].op = "Delete" /\ th[t].dkey = k /\ th[t].pc = "del_lock"
          /\ th'[t].pc # "del_lock") =>
          LET r == th[t].r IN
          /\ table.aboutToDeleteItem => hist[r].nDel >= 1
          /\ heap[r].aboutToExpire => hist[r].nExp >= 1
          /\ hist'[r].nDel = hist[r].nDel /\ hist'[r].nExp = hist[r].nExp
          /\ table'.items[k] = Nil
          /\ ret' = Returns("Delete", t, k, r, heap[r].data, None, TRUE)

\* t invokes a callback of its Delete while the entry it looked up is in
\* the table under its key
PresentInCallback(t) ==
    (th[t].op = "Delete" /\ th[t].pc = "del_unlocked"
        /\ th'[t] # th[t] /\ hist' # hist)
        => table.items[th[t].dkey] = th[t].r

\* C11: Delete on a key that is present when it is looked up first
\* invokes the table's about-to-delete callback with the entry, then the
\* entry's about-to-expire callback, and only then removes the key.  The
\* call and the two callback steps leave the map as it is, so this Delete
\* does not remove the entry before both callbacks have run; the step that
\* removes returns the entry and leaves the key absent.  Whether the entry
\* is still in the table during the callbacks depends on the other
\* goroutines: the callbacks run with the table unlocked.
C11_DeleteOrder ==
    [][\A t \in Clients : \A k \in Keys : DeleteInOrder(t, k)]_vars

\* C11 with the entry's presence: the same order, and the entry is still
\* present in the table whenever one of the two callbacks of the Delete runs.
C11_PresentDuringCallbacks ==
    [][\A t \in Clients :
          /\ \A k \in Keys : DeleteInOrder(t, k)
          /\ PresentInCallback(t)]_vars

\* C11's case: a Delete has invoked both callbacks for the entry, once each,
\* stands before table.Lock() of line 179, and the entry is in the table
C11_Witness ==
    \E t \in Clients :
        /\ th[t].op = "Delete" /\ th[t].pc = "del_lock"
        /\ table.aboutToDeleteItem /\ heap[th[t].r].aboutToExpire
        /\ hist[th[t].r].nDel = 1 /\ hist[th[t].r].nExp = 1
        /\ table.items[th[t].dkey] = th[t].r

\* the removals that deleteInternal has reported for the items 1..n
RECURSIVE Removals(_)
Removals(n) == IF n = 0 THEN 0 ELSE hist[n].nGone + Removals(n - 1)

\* every key was given to at most one add
AddedOnce == \A i, j \in ItemIds : heap[i].key = heap[j].key => i = j

\* C12: when each key is added once (and the table is never flushed), in a
\* quiescent state Count() is the number of completed adds minus the number
\* of successful deletes, a sweep expiry counting as a delete, and no entry
\* is reported removed twice.
C12_CountIsAddsMinusDeletes ==
    (Quiescent /\ AddedOnce /\ table.flushed = "no") =>
        /\ \A i \in ItemIds : hist[i].nGone <= 1
        /\ Count = Len(heap) - Removals(Len(heap))

\* C13: once Flush has returned and while nothing is stored after it, the
\* table is empty and no cleanup timer is armed, whatever sweep or Delete was
\* in its unlocked window when Flush ran.
C13_FlushCancelsSweep ==
    table.flushed = "yes" =>
        /\ Count = 0
        /\ ~table.cleanupTimer.armed
        /\ \A at \in Times : orphans[at] = 0

\* C14: MostAccessed(n), n >= 0, returns distinct entries of the table in
\* non-increasing order of accessCount, min(n, Count()) of them.
C14_MostAccessed ==
    (ret.op = "MostAccessed" /\ ret.key >= 0) =>
        LET r == ret.data IN
        /\ Len(r) = IF ret.key < Count THEN ret.key ELSE Count
        /\ \A a \in DOMAIN r : \E k \in DOMAIN table.items : table.items[k] = r[a]
        /\ \A a, b \in DOMAIN r : a # b => r[a] # r[b]
        /\ \A a, b \in DOMAIN r :
              a < b => heap[r[a]].accessCount >= heap[r[b]].accessCount

\* a step of goroutine t that invokes a user-supplied callback: the data
\* loader, the added-item callback, the about-to-delete callback or an
\* entry's about-to-expire callback
InvokesCallback(t) ==
    /\ th'[t] # th[t]
    /\ \/ loads' # loads
       \/ \E i \in ItemIds :
             \/ hist'[i].nAdded # hist[i].nAdded
             \/ hist'[i].nDel # hist[i].nDel
             \/ hist'[i].nExp # hist[i].nExp

\* C15: no callback is invoked by a goroutine that holds the table lock; the
\* map changes only in a step that takes the table lock; the lock is held
\* across steps only inside expirationCheck's loop, so that every Lock is
\* matched by an Unlock when the operation is through.
C15_CallbacksOutsideLock ==
    /\ [](table.lock # None => th[table.lock].pc = "exp_loop")
    /\ [][/\ \A t \in Threads : InvokesCallback(t) => table.lock # t
          /\ table'.items # table.items =>
                /\ table.lock = None
                /\ \A t \in Threads :
                      table'.lock = t => th[t].pc = "del_lock"]_vars

\* C15's case: a sweep has unlocked the table, invoked the about-to-delete
\* callback with an expired entry, locked the table again, removed the entry
\* and stands in its loop with the lock
C15_Witness ==
    \E t \in Sweepers, i \in ItemIds :
        /\ th[t].pc = "exp_loop" /\ table.lock = t
        /\ hist[i].nDel = 1 /\ hist[i].nGone = 1
        /\ ~InTable(i)

\* C16: a callback body that calls Value on the key of its entry returns: no
\* goroutine waits inside item.Lock() for an entry whose RLock it holds
\* itself, a wait that nothing can end.
C16_CallbackValueReturns ==
    \A t \in Threads, i \in ItemIds : ~(WaitsForLock(t, i) /\ HoldsRLock(t, i))

\* C17: the table lock and the entry locks are never nested so that Value,
\* Delete and the sweep block each other for ever: while the goroutines
\* inside an operation are all in Value, in Delete or in a timer's sweep, one
\* of them can take its next step.
C17_NoDeadlock ==
    LET busy == {t \in Threads : th[t].pc # "idle"} IN
    (busy # {} /\ \A t \in busy : th[t].op \in {"Value", "Delete", "Sweep"}) =>
        \E t \in busy : ENABLED Step(t)

\* C18: at most one cleanup timer is pending, the one table.cleanupTimer
\* refers to: no timer that was armed and has neither fired nor been stopped
\* is left without that reference.
C18_OneTimerPending ==
    \A at \in Times : orphans[at] = 0

\* the keys that the loop of goroutine t's sweep produces in this step
Visited(t) ==
    (th[t].todo \cup th[t].opt) \ (th'[t].todo \cup th'[t].opt)
\* the entry the loop finds under key k, and what is left of its lifeSpan at
\* the sweep's reading of the clock
VisitedItem(t, k) == IF th[t].iter = "live" THEN table.items[k] ELSE th[t].snap[k]
Remaining(t, i) == heap[i].lifeSpan - (th[t].snow - heap[i].accessedOn)

\* C19: a sweep starts its minimum at 0; every entry with a lifeSpan that it
\* finds unexpired has a remaining time above 0, and the minimum becomes the
\* smaller of that and the minimum so far (0: none so far); other entries
\* leave it alone.  When the sweep finishes, cleanupInterval is that minimum,
\* and a timer is armed, for now plus the minimum, iff the minimum is above 0.
C19_SweepInterval ==
    [][\A t \in Threads :
        LET l == th[t] IN
        /\ (l.pc = "exp_lock" /\ th'[t].pc = "exp_loop") => th'[t].smallest = 0
        /\ (l.pc = "exp_loop" /\ th'[t].pc # "idle") =>
              \A k \in Visited(t) :
                 LET i == VisitedItem(t, k) IN
                 IF heap[i].lifeSpan # 0
                    /\ ~(l.snow - heap[i].accessedOn >= heap[i].lifeSpan)
                 THEN /\ Remaining(t, i) > 0
                      /\ th'[t].smallest > 0
                      /\ th'[t].smallest <= Remaining(t, i)
                      /\ l.smallest > 0 => th'[t].smallest <= l.smallest
                      /\ th'[t].smallest \in {l.smallest, Remaining(t, i)}
                 ELSE th'[t].smallest = l.smallest
        /\ (l.pc = "exp_loop" /\ th'[t].pc = "idle") =>
              /\ table'.cleanupInterval = l.smallest
              /\ table'.cleanupTimer =
                    IF l.smallest > 0
                    THEN [armed |-> TRUE, at |-> now + l.smallest]
                    ELSE table.cleanupTimer
      ]_vars

\* C19's case: an Add's sweep has finished over two unexpired entries, one
\* with 2 and one with 1 left of its lifeSpan; cleanupInterval is 1 and the
\* timer is armed for now + 1
C19_Witness ==
    /\ Quiescent /\ ret.op = "Add"
    /\ \E j, k \in Keys :
          /\ Present(j) /\ Present(k)
          /\ heap[table.items[j]].lifeSpan - (now - heap[table.items[j]].accessedOn) = 2
          /\ heap[table.items[k]].lifeSpan - (now - heap[table.items[k]].accessedOn) = 1
    /\ table.cleanupInterval = 1
    /\ table.cleanupTimer = [armed |-> TRUE, at |-> now + 1]

\* C20: a delete, by Delete(key) or by a sweep, takes out of the map the
\* entry it looked up and returns, and no other: an entry that an Add or a
\* NotFoundAdd stored under the key while the delete ran its callbacks stays.
C20_DeleteRemovesLookedUp ==
    [][\A t \in Threads :
        (th[t].pc = "del_lock" /\ th'[t].pc # "del_lock") =>
            \A k \in Keys :
                table'.items[k] # table.items[k] => table.items[k] = th[t].r
      ]_vars

====
